---------------------------- MODULE Spec2Model ----------------------------
(***************************************************************************)
(* md_to_notion_batch.py: Markdown + LaTeX -> Notion blocks -> Notion API. *)
(*                                                                         *)
(* Spec        : the delivery engine (BatchProcessor.process_files,        *)
(*               NotionClient.create_page and _append_blocks), one action  *)
(*               per network request, the remote's answer to it and all    *)
(*               the code that runs up to the next request.                *)
(* SpecBuild   : NotionBlockBuilder.build_blocks on a family of documents, *)
(*               one action per pass of its outer loop and one per pass of *)
(*               its final loop over the blocks. SpecBuildLive is the same *)
(*               with the loops running on, on documents of two lines.     *)
(* SpecEnforce : the final loop (_split_block_if_needed) on its own, on    *)
(*               lists of blocks of up to 250 spans.                       *)
(* SpecFile    : process_file and create_page on documents of bullets.     *)
(* SpecConvert : LatexToNotionConverter.convert, applied twice, one action *)
(*               per line of _convert_block_math and _convert_inline_math. *)
(* SpecProcess : process_file without upload: convert, build_blocks, the   *)
(*               result with its title.                                    *)
(* SpecChunk   : NotionBlockBuilder._chunk_text on its own.                *)
(***************************************************************************)
EXTENDS Integers, Sequences, FiniteSets, TLC

VARIABLES
    files,      \* len(filepaths) of the process_files call
    fileIdx,    \* enumerate(filepaths, 1): index of the file being processed
    pc,         \* position of the run: which request is sent next
    blocks,     \* create_page's blocks argument (unit ids, in parsed order)
    remaining,  \* create_page's local `remaining`
    batch,      \* _append_blocks' blocks argument
    idx,        \* _append_blocks' enumerate index (0-based)
    data,       \* resp.json() of the accepted creation
    page,       \* remote: children of the page of the current document
    net,        \* requests of the current document, in order, with answers
    errlog,     \* log.error records of _append_blocks for this document
    results,    \* process_files' results list
    pause,      \* milliseconds slept since the last request
    rejects,    \* rejected creations and batches so far in the run
    lines,        \* build_blocks: text.split('\n')
    line_i,       \* build_blocks: i, the 0-based index of the next line
    built,        \* build_blocks: blocks, the list before the final loop
    block_i,      \* build_blocks: blocks the final loop has gone through
    final_blocks, \* build_blocks: final_blocks
    cv_in,         \* convert: markdown_text
    cv_pc,         \* convert: the function it is in
    cv_lines,      \* _convert_block_math / _convert_inline_math: lines
    cv_i,          \* their loops: the 0-based index of the next line
    cv_result,     \* their result lists
    in_block_math, \* _convert_inline_math: in_block_math
    converted,     \* the texts convert has returned, in order
    result,        \* process_file: result (None until it is made)
    ck_pc,          \* _chunk_text: called or returned
    ck_content,     \* _chunk_text: the content argument
    ck_annotations, \* _chunk_text: the annotations argument
    ck_chunks       \* _chunk_text: the list it returned

dvars == <<files, fileIdx, pc, blocks, remaining, batch, idx, data, page,
           net, errlog, results, pause, rejects>>

bvars == <<lines, line_i, built, block_i, final_blocks>>

cvars == <<cv_in, cv_pc, cv_lines, cv_i, cv_result, in_block_math, converted>>

kvars == <<ck_pc, ck_content, ck_annotations, ck_chunks>>

vars == <<dvars, bvars, cvars, result, kvars>>

----------------------------------------------------------------------------
(* Bounds of the model.                                                    *)

\* process_files is called with one file or with two.
FileCounts == {1, 2}

\* The remote rejects at most MaxRejects creations and batches in one run.
MaxRejects == 2
\* The longest document has MaxBlocks units.
MaxBlocks == 201

----------------------------------------------------------------------------
(* Python lists.                                                           *)

Min(a, b) == IF a <= b THEN a ELSE b

\* s[:k]
Take(s, k) == SubSeq(s, 1, Min(k, Len(s)))

\* s[k:]
Drop(s, k) == SubSeq(s, k + 1, Len(s))

----------------------------------------------------------------------------
(* Python strings: a text is a sequence of one-character strings.          *)

\* The characters str.strip() and the regex class \s remove or match.
IsSpace(c) == c \in {" ", "\t", "\n", "\r"}

\* The backtick character (a TLA+ string cannot hold it).
BQ == "backtick"

\* The regex class \d
Digits == {"0", "1", "2", "3", "4", "5", "6", "7", "8", "9"}

\* The least member of a non-empty set of integers.
Least(S) == CHOOSE k \in S : \A j \in S : k <= j

\* s.find(c, from): the first index >= from at which s holds c; 0 if none.
Find(s, c, from) ==
    LET hits == {k \in from..Len(s) : s[k] = c}
    IN IF hits = {} THEN 0 ELSE Least(hits)

\* s.startswith(prefix)
StartsWith(s, prefix) ==
    /\ Len(s) >= Len(prefix)
    /\ \A k \in 1..Len(prefix) : s[k] = prefix[k]

\* s.endswith(suffix)
EndsWith(s, suffix) ==
    /\ Len(s) >= Len(suffix)
    /\ \A k \in 1..Len(suffix) : s[Len(s) - Len(suffix) + k] = suffix[k]

\* Index of the first character of s at or after k that is no whitespace.
RECURSIVE SkipSpace(_, _)
SkipSpace(s, k) ==
    IF k <= Len(s) /\ IsSpace(s[k]) THEN SkipSpace(s, k + 1) ELSE k

\* Index of the last character of s at or before k that is no whitespace.
RECURSIVE SkipSpaceBack(_, _)
SkipSpaceBack(s, k) ==
    IF k >= 1 /\ IsSpace(s[k]) THEN SkipSpaceBack(s, k - 1) ELSE k

\* s.strip()
Strip(s) == SubSeq(s, SkipSpace(s, 1), SkipSpaceBack(s, Len(s)))

\* sep.join(parts): the first half joined, sep, the second half joined
\* (halved to keep the evaluation shallow).
RECURSIVE Join(_, _)
Join(sep, parts) ==
    IF parts = <<>> THEN <<>>
    ELSE IF Len(parts) = 1 THEN parts[1]
    ELSE LET half == Len(parts) \div 2
         IN Join(sep, SubSeq(parts, 1, half)) \o sep
            \o Join(sep, SubSeq(parts, half + 1, Len(parts)))

\* s.split('\n'): the lines left of a newline near the middle of s, then
\* the lines right of it (halved to keep the evaluation shallow).
RECURSIVE SplitLines(_)
SplitLines(s) ==
    LET first == Find(s, "\n", 1)
        later == Find(s, "\n", (Len(s) \div 2) + 1)
        nl == IF later # 0 THEN later ELSE first
    IN IF nl = 0 THEN <<s>>
       ELSE SplitLines(SubSeq(s, 1, nl - 1)) \o SplitLines(SubSeq(s, nl + 1, Len(s)))

\* sub in s, for a sub of two characters
Contains2(s, sub) ==
    \E k \in 1..(Len(s) - 1) : s[k] = sub[1] /\ s[k + 1] = sub[2]

\* s without the characters at the indices in dropped.
Without(s, dropped) ==
    LET Kept(c) == c # "dropped"
    IN SelectSeq([k \in 1..Len(s) |-> IF k \in dropped THEN "dropped" ELSE s[k]], Kept)

----------------------------------------------------------------------------
(* LatexToNotionConverter.                                                 *)

\* The number of collected lines above which the search for the closing
\* marker of a block formula is given up.
MATH_SEARCH_LIMIT == 30

\* markdown_text.replace('\r\n', '\n')
ReplaceCRLF(s) ==
    Without(s, {k \in 1..(Len(s) - 1) : s[k] = "\r" /\ s[k + 1] = "\n"})

\* re.sub of four or more newlines by three
CollapseNewlines(s) ==
    Without(s, {k \in 4..Len(s) : \A d \in 0..3 : s[k - d] = "\n"})

\* The block-math marker
MathMarker == <<"$", "$">>

\* The canonical block formula: result.append('') .. result.append('')
CanonicalBlock(formula) == << <<>>, MathMarker, formula, MathMarker, <<>> >>

\* Mutant: a line that ends with the marker does not close the formula.
RECURSIVE MutCloseSearch(_, _, _)
MutCloseSearch(ls, j, math_lines) ==
    IF j >= Len(ls)
    THEN [i |-> j, math_lines |-> math_lines, found_closing |-> FALSE]
    ELSE IF Strip(ls[j + 1]) = MathMarker
    THEN [i |-> j + 1, math_lines |-> math_lines, found_closing |-> TRUE]
    ELSE IF Len(math_lines) > MATH_SEARCH_LIMIT
    THEN [i |-> j, math_lines |-> math_lines, found_closing |-> FALSE]
    ELSE MutCloseSearch(ls, j + 1, Append(math_lines, ls[j + 1]))

\* The inner loop of _convert_block_math from line index j (0-based):
\* [i, math_lines, found_closing] at its end.
RECURSIVE CloseSearch(_, _, _)
CloseSearch(ls, j, math_lines) ==
    IF j >= Len(ls)
    THEN [i |-> j, math_lines |-> math_lines, found_closing |-> FALSE]
    ELSE LET next_stripped == Strip(ls[j + 1])
         IN IF next_stripped = MathMarker
            THEN [i |-> j + 1, math_lines |-> math_lines, found_closing |-> TRUE]
            ELSE IF EndsWith(next_stripped, MathMarker) /\ Len(next_stripped) > 2
            THEN [i |-> j + 1,
                  math_lines |-> Append(math_lines,
                                        Strip(SubSeq(next_stripped, 1,
                                                     Len(next_stripped) - 2))),
                  found_closing |-> TRUE]
            ELSE IF Len(math_lines) > MATH_SEARCH_LIMIT
            THEN [i |-> j, math_lines |-> math_lines, found_closing |-> FALSE]
            ELSE CloseSearch(ls, j + 1, Append(math_lines, ls[j + 1]))

\* The branch of _convert_block_math's outer loop a line takes.
BlockMathKind(line) ==
    LET stripped == Strip(line)
        content_after_open == Strip(Drop(stripped, 2))
    IN IF ~StartsWith(stripped, MathMarker) THEN "other"
       ELSE IF content_after_open # <<>> /\ EndsWith(content_after_open, MathMarker)
       THEN "single"
       ELSE "opened"

\* The regex of _convert_inline_math at index p of t: the index of the
\* closing dollar of the match that starts at p, 0 when none does. A
\* dollar opens or closes when it has no dollar next to it on the side
\* the lookarounds test; the content is lazy, so the first closing dollar
\* with at least one character of content is taken.
InlineMatchEnd(t, p) ==
    LET n == Len(t)
        closers == {q \in (p + 2)..n :
                       /\ t[q] = "$"
                       /\ t[q - 1] # "$"
                       /\ (q = n \/ t[q + 1] # "$")}
    IN IF /\ p < n
          /\ t[p] = "$"
          /\ (p = 1 \/ t[p - 1] # "$")
          /\ t[p + 1] # "$"
          /\ closers # {}
       THEN Least(closers)
       ELSE 0

\* replace_inline on match.group(0)
ReplaceInline(matched) ==
    LET content == SubSeq(matched, 2, Len(matched) - 1)
    IN IF Strip(content) = <<>> THEN matched
       ELSE IF /\ content[1] \in Digits
               /\ \A k \in 1..Len(content) : content[k] \in Digits \cup {",", "."}
       THEN matched
       ELSE <<"$", BQ>> \o content \o <<BQ, "$">>

\* re.sub over the line t from index pos on
RECURSIVE InlineSub(_, _)
InlineSub(t, pos) ==
    LET starts == {p \in pos..Len(t) : InlineMatchEnd(t, p) > 0}
    IN IF starts = {} THEN SubSeq(t, pos, Len(t))
       ELSE LET p == Least(starts)
                q == InlineMatchEnd(t, p)
            IN SubSeq(t, pos, p - 1) \o ReplaceInline(SubSeq(t, p, q))
               \o InlineSub(t, q + 1)

\* The branch of _convert_inline_math's loop a line takes.
InlineKind(line, in_block) ==
    IF Strip(line) = MathMarker THEN "toggle"
    ELSE IF in_block \/ Contains2(line, <<"$", BQ>>) THEN "kept"
    ELSE "substituted"

----------------------------------------------------------------------------
(* NotionBlockBuilder: rich text.                                          *)
(* A text span {"type": "text", "text": {"content": c}, "annotations": a}  *)
(* is [type, content, annotations], a link span [type, content, link], an  *)
(* inline equation [type, expression].                                     *)

MAX_TEXT_LENGTH == 2000
MAX_RICH_TEXT_ELEMENTS == 100

\* Mutant: each pass loses the character after the chunk.
RECURSIVE MutChunkText(_, _)
MutChunkText(content, annotations) ==
    IF content = <<>> THEN <<>>
    ELSE <<[type |-> "text",
            content |-> Take(content, MAX_TEXT_LENGTH),
            annotations |-> annotations]>>
         \o MutChunkText(Drop(content, MAX_TEXT_LENGTH + 1), annotations)

\* _chunk_text: `while content:` cuts MAX_TEXT_LENGTH characters a pass.
\* annotations is "none" for None, else the one flag set.
RECURSIVE ChunkText(_, _)
ChunkText(content, annotations) ==
    IF content = <<>> THEN <<>>
    ELSE <<[type |-> "text",
            content |-> Take(content, MAX_TEXT_LENGTH),
            annotations |-> annotations]>>
         \o ChunkText(Drop(content, MAX_TEXT_LENGTH), annotations)

\* The characters one of the five alternatives of `pattern` starts with.
SpanOpeners == {"$", "*", BQ, "["}

\* pattern.match(t, i): the index of the last character of the match that
\* starts at index i of t, 0 when none does. The five alternatives, tried
\* in order: inline equation (dollar backtick .. backtick dollar), bold
\* (two stars .. two stars), italic (star .. star), inline code (backtick
\* .. backtick), link (bracketed text, parenthesised url). Each body is a
\* negated class with +: it runs up to the first occurrence of the
\* excluded character, which must be the closing delimiter.
SpanMatchEnd(t, i) ==
    LET n == Len(t)
        At(k, c) == k <= n /\ t[k] = c
        equation ==
            IF At(i, "$") /\ At(i + 1, BQ)
            THEN LET e == Find(t, BQ, i + 2)
                 IN IF e >= i + 3 /\ At(e + 1, "$") THEN e + 1 ELSE 0
            ELSE 0
        bold ==
            IF At(i, "*") /\ At(i + 1, "*")
            THEN LET e == Find(t, "*", i + 2)
                 IN IF e >= i + 3 /\ At(e + 1, "*") THEN e + 1 ELSE 0
            ELSE 0
        italic ==
            IF At(i, "*")
            THEN LET e == Find(t, "*", i + 1)
                 IN IF e >= i + 2 THEN e ELSE 0
            ELSE 0
        code ==
            IF At(i, BQ)
            THEN LET e == Find(t, BQ, i + 1)
                 IN IF e >= i + 2 THEN e ELSE 0
            ELSE 0
        link ==
            IF At(i, "[")
            THEN LET e == Find(t, "]", i + 1)
                 IN IF e >= i + 2 /\ At(e + 1, "(")
                    THEN LET f == Find(t, ")", e + 2)
                         IN IF f >= e + 3 THEN f ELSE 0
                    ELSE 0
            ELSE 0
    IN IF equation > 0 THEN equation
       ELSE IF bold > 0 THEN bold
       ELSE IF italic > 0 THEN italic
       ELSE IF code > 0 THEN code
       ELSE link

\* pattern.finditer: the start of the first match at or after index pos,
\* 0 when there is none.
RECURSIVE NextSpanMatch(_, _)
NextSpanMatch(t, pos) ==
    LET openers == {k \in pos..Len(t) : t[k] \in SpanOpeners}
    IN IF openers = {} THEN 0
       ELSE LET c == Least(openers)
            IN IF SpanMatchEnd(t, c) > 0 THEN c ELSE NextSpanMatch(t, c + 1)

\* The link branch: the text group as content, uncut, the url group as
\* link url.
LinkSpan(matched) ==
    LET close == Find(matched, "]", 2)
    IN <<[type |-> "text",
          content |-> SubSeq(matched, 2, close - 1),
          link |-> SubSeq(matched, close + 2, Len(matched) - 1)]>>

\* The if/elif chain of _parse_rich_text on match.group(0).
SpansOfMatch(matched) ==
    LET n == Len(matched)
    IN IF StartsWith(matched, <<"$", BQ>>) /\ EndsWith(matched, <<BQ, "$">>)
       THEN <<[type |-> "equation", expression |-> SubSeq(matched, 3, n - 2)]>>
       ELSE IF StartsWith(matched, <<"*", "*">>) /\ EndsWith(matched, <<"*", "*">>)
       THEN ChunkText(SubSeq(matched, 3, n - 2), "bold")
       ELSE IF StartsWith(matched, <<"*">>) /\ EndsWith(matched, <<"*">>)
       THEN ChunkText(SubSeq(matched, 2, n - 1), "italic")
       ELSE IF StartsWith(matched, <<BQ>>) /\ EndsWith(matched, <<BQ>>)
       THEN ChunkText(SubSeq(matched, 2, n - 1), "code")
       ELSE IF StartsWith(matched, <<"[">>)
       THEN LinkSpan(matched)
       ELSE <<>>

\* One pass of the loop over pattern.finditer(t) from the state st =
\* [last_end, rich_text, done]; done when finditer has no further match.
ParsePass(t, st) ==
    LET start == NextSpanMatch(t, st.last_end + 1)
    IN IF st.done THEN st
       ELSE IF start = 0 THEN [st EXCEPT !.done = TRUE]
       ELSE LET end == SpanMatchEnd(t, start)
            IN [last_end |-> end,
                rich_text |-> st.rich_text
                              \o ChunkText(SubSeq(t, st.last_end + 1, start - 1), "none")
                              \o SpansOfMatch(SubSeq(t, start, end)),
                done |-> FALSE]

\* The loop over pattern.finditer(t): n passes from the state st (the
\* passes are halved to keep the evaluation shallow).
RECURSIVE ParseLoop(_, _, _)
ParseLoop(t, st, n) ==
    IF n = 0 \/ st.done THEN st
    ELSE IF n = 1 THEN ParsePass(t, st)
    ELSE LET half == ParseLoop(t, st, n \div 2)
         IN ParseLoop(t, half, n - (n \div 2))

\* _parse_rich_text up to its fallback: the loop (a match has a character,
\* so Len(t) + 1 passes end it) and the plain text after the last match.
ParseFrom(t, last_end) ==
    LET st == ParseLoop(t, [last_end |-> last_end, rich_text |-> <<>>, done |-> FALSE],
                        Len(t) + 1)
    IN st.rich_text \o ChunkText(SubSeq(t, st.last_end + 1, Len(t)), "none")

\* _parse_rich_text
ParseRichText(t) ==
    LET rich_text == ParseFrom(t, 0)
    IN IF rich_text = <<>>
       THEN <<[type |-> "text", content |-> t, annotations |-> "none"]>>
       ELSE rich_text

----------------------------------------------------------------------------
(* NotionBlockBuilder: blocks.                                             *)
(* A block {"type": t, t: inner} is [type |-> t, inner |-> inner], inner a *)
(* record of the keys of the dict.                                         *)

\* The safety limit of the block-math collection loop.
MATH_LINES_LIMIT == 50

Block(type, inner) == [type |-> type, inner |-> inner]

\* range(0, stop, step), as a sequence
PyRange(stop, step) == [j \in 1..((stop + step - 1) \div step) |-> (j - 1) * step]

\* Mutant: the slices overlap by one element.
MutRichTextChunk(rich_text, i) ==
    SubSeq(rich_text, IF i = 0 THEN 1 ELSE i,
           Min(i + MAX_RICH_TEXT_ELEMENTS, Len(rich_text)))

\* Mutant: the slices are half as long again as the limit.
MutWideRichTextChunk(rich_text, i) ==
    SubSeq(rich_text, i + 1,
           Min(i + MAX_RICH_TEXT_ELEMENTS + (MAX_RICH_TEXT_ELEMENTS \div 2), Len(rich_text)))

\* chunk = rich_text[i:i + self.MAX_RICH_TEXT_ELEMENTS]
RichTextChunk(rich_text, i) ==
    SubSeq(rich_text, i + 1, Min(i + MAX_RICH_TEXT_ELEMENTS, Len(rich_text)))

\* _split_block_if_needed (every block built has a type)
SplitBlockIfNeeded(block) ==
    LET block_type == block.type
        inner == block.inner
        rich_text == IF "rich_text" \in DOMAIN inner THEN inner.rich_text ELSE <<>>
    IN IF rich_text = <<>> \/ Len(rich_text) <= MAX_RICH_TEXT_ELEMENTS
       THEN <<block>>
       ELSE LET starts == PyRange(Len(rich_text), MAX_RICH_TEXT_ELEMENTS)
            IN [j \in 1..Len(starts) |->
                  Block(block_type,
                        [key \in {"rich_text"} \cup (DOMAIN inner \ {"rich_text"}) |->
                           IF key = "rich_text"
                           THEN RichTextChunk(rich_text, starts[j])
                           ELSE inner[key]])]

Fence == <<BQ, BQ, BQ>>
Dividers == {<<"-", "-", "-">>, <<"*", "*", "*">>, <<"_", "_", "_">>}

\* Number of characters of s from index k on that are in the set chars.
RECURSIVE RunLength(_, _, _)
RunLength(s, k, chars) ==
    IF k <= Len(s) /\ s[k] \in chars THEN 1 + RunLength(s, k + 1, chars) ELSE 0

\* re.match of 1 to 3 hashes, whitespace, rest: [level, text], level 0 when
\* the line is no heading.
HeaderMatch(s) ==
    LET h == RunLength(s, 1, {"#"})
    IN IF h \in 1..3 /\ h < Len(s) /\ IsSpace(s[h + 1])
       THEN [level |-> h, text |-> SubSeq(s, SkipSpace(s, h + 1), Len(s))]
       ELSE [level |-> 0, text |-> <<>>]

\* re.match of digits, a dot, whitespace, rest: [ok, text]
NumMatch(s) ==
    LET d == RunLength(s, 1, Digits)
    IN IF d >= 1 /\ d + 1 < Len(s) /\ s[d + 1] = "." /\ IsSpace(s[d + 2])
       THEN [ok |-> TRUE, text |-> SubSeq(s, SkipSpace(s, d + 2), Len(s))]
       ELSE [ok |-> FALSE, text |-> <<>>]

IsBullet(s) == StartsWith(s, <<"-", " ">>) \/ StartsWith(s, <<"*", " ">>)

IsQuote(s) == StartsWith(s, <<">", " ">>)

\* The branch of build_blocks' outer loop a stripped line takes: the
\* if-chain in its order.
LineKind(stripped) ==
    IF stripped = <<>> THEN "blank"
    ELSE IF stripped = MathMarker THEN "math"
    ELSE IF StartsWith(stripped, Fence) THEN "code"
    ELSE IF stripped \in Dividers THEN "divider"
    ELSE IF HeaderMatch(stripped).level > 0 THEN "heading"
    ELSE IF IsQuote(stripped) THEN "quote"
    ELSE IF IsBullet(stripped) THEN "bullet"
    ELSE IF NumMatch(stripped).ok THEN "numbered"
    ELSE "paragraph"

\* The condition under which paragraph absorption stops at next_s.
ParagraphBreak(next_s) ==
    \/ next_s = <<>>
    \/ StartsWith(next_s, <<"#">>)
    \/ StartsWith(next_s, <<"-", " ">>)
    \/ StartsWith(next_s, <<"*", " ">>)
    \/ next_s = MathMarker
    \/ StartsWith(next_s, Fence)
    \/ StartsWith(next_s, <<">", " ">>)
    \/ next_s \in Dividers
    \/ NumMatch(next_s).ok

\* Mutant: the line at which the collection gives up is passed over.
RECURSIVE MutCollectMath(_, _, _)
MutCollectMath(ls, j, math_lines) ==
    IF j < Len(ls) /\ Len(math_lines) < MATH_LINES_LIMIT
    THEN IF Strip(ls[j + 1]) = MathMarker
         THEN [i |-> j + 1, math_lines |-> math_lines, found_closing |-> TRUE]
         ELSE MutCollectMath(ls, j + 1, Append(math_lines, ls[j + 1]))
    ELSE [i |-> j + 1, math_lines |-> math_lines, found_closing |-> FALSE]

\* The inner loop of the math branch from line index j (0-based) with
\* math_lines collected so far: [i, math_lines, found_closing] at its end.
RECURSIVE CollectMath(_, _, _)
CollectMath(ls, j, math_lines) ==
    IF j < Len(ls) /\ Len(math_lines) < MATH_LINES_LIMIT
    THEN IF Strip(ls[j + 1]) = MathMarker
         THEN [i |-> j + 1, math_lines |-> math_lines, found_closing |-> TRUE]
         ELSE CollectMath(ls, j + 1, Append(math_lines, ls[j + 1]))
    ELSE [i |-> j, math_lines |-> math_lines, found_closing |-> FALSE]

\* The inner loop of the code branch: [i, code_lines] at its end.
RECURSIVE CollectCode(_, _, _)
CollectCode(ls, j, code_lines) ==
    IF j < Len(ls) /\ ~StartsWith(Strip(ls[j + 1]), Fence)
    THEN CollectCode(ls, j + 1, Append(code_lines, ls[j + 1]))
    ELSE [i |-> j, code_lines |-> code_lines]

\* The inner loop of the quote branch: [i, quote_lines] at its end.
RECURSIVE CollectQuote(_, _, _)
CollectQuote(ls, j, quote_lines) ==
    IF j < Len(ls) /\ IsQuote(Strip(ls[j + 1]))
    THEN CollectQuote(ls, j + 1, Append(quote_lines, Drop(Strip(ls[j + 1]), 2)))
    ELSE [i |-> j, quote_lines |-> quote_lines]

\* Mutant: the paragraph branch enters its inner loop without having
\* stepped over the line it is at.
RECURSIVE MutParagraphLoop(_, _, _)
MutParagraphLoop(ls, j, para_lines) ==
    IF j < Len(ls) /\ ~ParagraphBreak(Strip(ls[j + 1]))
    THEN MutParagraphLoop(ls, j + 1, Append(para_lines, Strip(ls[j + 1])))
    ELSE [i |-> j, para_lines |-> para_lines]

MutCollectParagraph(ls, j, para_lines) == MutParagraphLoop(ls, j - 1, para_lines)

\* The inner loop of the paragraph branch: [i, para_lines] at its end.
RECURSIVE CollectParagraph(_, _, _)
CollectParagraph(ls, j, para_lines) ==
    IF j < Len(ls) /\ ~ParagraphBreak(Strip(ls[j + 1]))
    THEN CollectParagraph(ls, j + 1, Append(para_lines, Strip(ls[j + 1])))
    ELSE [i |-> j, para_lines |-> para_lines]

\* The block type of a heading of the level
HeadingType(level) ==
    CASE level = 1 -> "heading_1"
      [] level = 2 -> "heading_2"
      [] level = 3 -> "heading_3"

RichBlock(type, t) == Block(type, [rich_text |-> ParseRichText(t)])

\* The code block: one text span holding the joined lines, and the language.
CodeBlock(lang, code_lines) ==
    Block("code",
          [rich_text |-> <<[type |-> "text",
                            content |-> Join(<<"\n">>, code_lines),
                            annotations |-> "none"]>>,
           language |-> IF lang # <<>> THEN lang
                        ELSE <<"p", "l", "a", "i", "n", " ", "t", "e", "x", "t">>])

----------------------------------------------------------------------------
(* NotionClient.create_page / _append_blocks.                              *)

\* The literal 100 of create_page (first_batch, remaining, batch).
PAGE_BATCH == 100

\* time.sleep(0.35), time.sleep(0.15), time.sleep(0.5), in milliseconds.
SLEEP_BATCH == 350
SLEEP_SINGLE == 150
SLEEP_FILE == 500

\* Mutant: the whole block list goes into the creation request.
MutFirstBatch(bs) == bs

\* first_batch = blocks[:100]
FirstBatch(bs) == Take(bs, PAGE_BATCH)

\* Mutant: after an accepted creation with initial content all units are
\* left to append, as after the fallback.
MutAllAfterFirstBatch(bs) == bs

\* remaining = blocks[100:]  (creation with initial content accepted)
AfterFirstBatch(bs) == Drop(bs, PAGE_BATCH)

\* Mutant: the fallback goes on as if the first batch had been stored.
MutAfterEmptyPage(bs) == Drop(bs, PAGE_BATCH)

\* remaining = blocks  (empty page created)
AfterEmptyPage(bs) == bs

\* Mutant: a batch is one unit short of the limit.
MutNextBatch(rem) == Take(rem, PAGE_BATCH - 1)

\* batch = remaining[:100]
NextBatch(rem) == Take(rem, PAGE_BATCH)

\* Mutant: the unit after each batch is dropped.
MutAfterBatch(rem) == Drop(rem, PAGE_BATCH + 1)

\* remaining = remaining[100:]
AfterBatch(rem) == Drop(rem, PAGE_BATCH)

\* body = {"children": [block]} of the singleton retry
SingleChildren(b, i) == <<b[i + 1]>>

\* idx of the next iteration of `for idx, block in enumerate(blocks)`
NextIdx(i) == i + 1

\* Mutant: the loop breaks at the first rejected unit.
MutSinglesLeft(i, b, ans) == i < Len(b) /\ ans # "reject"

\* `for idx, block in enumerate(blocks)` goes on after idx `i` whatever
\* the answer `ans` to the singleton was: neither branch of the if breaks.
SinglesLeft(i, b, ans) == i < Len(b)

\* body["children"] = [] of the fallback creation
EmptyChildren == <<>>

\* What requests.post / requests.patch can do: answer 200, answer another
\* status, or raise (ConnectionError, Timeout): no call is wrapped in try.
\* The remote rejects at most MaxRejects creations and batches in a run.
Answers == IF rejects < MaxRejects THEN {"ok", "reject", "raise"}
                                   ELSE {"ok", "raise"}

\* The places of a batch of `len` units at which the remote may reject the
\* unit sent alone: the first, #47 and the last.
Rejectable(len) == {0, 47, len - 1}

SingleAnswers(i, len) == IF i \in Rejectable(len) THEN {"ok", "reject", "raise"}
                                                  ELSE {"ok", "raise"}

Request(op, children, ans) ==
    [op |-> op, children |-> children, ans |-> ans, gap |-> pause]

\* The document sizes build_blocks hands over.
DocSizes == {0, 1, PAGE_BATCH - 1, PAGE_BATCH, PAGE_BATCH + 1, MaxBlocks}

Units(n) == [i \in 1..n |-> i - 1]

\* Python's None, and resp.json() of an accepted creation.
None == [none |-> TRUE]
PageData(f) == [id |-> f, url |-> f]

\* process_file after create_page returned `ret` (None or data), then the
\* rest of process_files' loop body: results.append, sleep, next file.
ProcessFileReturn(ret, slept) ==
    /\ results' = Append(results,
                    IF ret = None
                    THEN [blocks_count |-> Len(blocks'), error |-> "upload failed"]
                    ELSE [blocks_count |-> Len(blocks'), notion_id |-> ret.id,
                          notion_url |-> ret.url])
    /\ IF fileIdx < files
       THEN /\ pause' = slept + SLEEP_FILE
            /\ fileIdx' = fileIdx + 1
            /\ pc' = "create"
       ELSE /\ pause' = slept
            /\ fileIdx' = fileIdx
            /\ pc' = "returned"

\* create_page's `while remaining:` loop, entered or re-entered with `rem`.
AppendLoop(rem, ret, slept) ==
    IF rem # <<>>
    THEN /\ pc' = "append"
         /\ pause' = slept
         /\ UNCHANGED <<results, fileIdx>>
    ELSE ProcessFileReturn(ret, slept)

\* An exception leaves create_page, process_file and process_files.
Raised ==
    /\ pc' = "raised"
    /\ pause' = 0
    /\ UNCHANGED <<results, fileIdx>>

\* Mutant: the append loop is entered although no page exists.
MutEmptyPageRejected ==
    /\ data' = None
    /\ remaining' = blocks
    /\ AppendLoop(remaining', None, 0)

\* The fallback creation was rejected too: create_page returns None and
\* process_file records the error.
EmptyPageRejected ==
    /\ data' = None
    /\ remaining' = remaining
    /\ ProcessFileReturn(None, 0)

\* create_page's first POST for the block list bs: pages with first_batch.
CreatePageOf(bs) ==
    /\ pc = "create"
    /\ \E ans \in Answers :
         /\ blocks' = bs
         /\ net' = <<Request("create", FirstBatch(blocks'), ans)>>
         /\ errlog' = <<>>
         /\ batch' = <<>>
         /\ idx' = 0
         /\ CASE ans = "ok" ->
                   /\ data' = PageData(fileIdx)
                   /\ page' = FirstBatch(blocks')
                   /\ remaining' = AfterFirstBatch(blocks')
                   /\ rejects' = rejects
                   /\ AppendLoop(remaining', data', 0)
              [] ans = "reject" ->
                   /\ data' = None
                   /\ page' = <<>>
                   /\ remaining' = <<>>
                   /\ rejects' = rejects + 1
                   /\ pc' = "create_empty"
                   /\ pause' = 0
                   /\ UNCHANGED <<results, fileIdx>>
              [] ans = "raise" ->
                   /\ data' = None
                   /\ page' = <<>>
                   /\ remaining' = <<>>
                   /\ rejects' = rejects
                   /\ Raised
    /\ UNCHANGED <<files, bvars, cvars, result, kvars>>

\* process_file up to create_page's first POST.
CreatePage == \E n \in DocSizes : CreatePageOf(Units(n))

\* The fallback POST with children = [].
CreateEmptyPage ==
    /\ pc = "create_empty"
    /\ UNCHANGED <<files, blocks, batch, idx, page, errlog, bvars, cvars, result, kvars>>
    /\ \E ans \in Answers :
         /\ net' = Append(net, Request("create", EmptyChildren, ans))
         /\ CASE ans = "ok" ->
                   /\ data' = PageData(fileIdx)
                   /\ remaining' = AfterEmptyPage(blocks)
                   /\ rejects' = rejects
                   /\ AppendLoop(remaining', data', 0)
              [] ans = "reject" ->
                   /\ rejects' = rejects + 1
                   /\ EmptyPageRejected
              [] ans = "raise" ->
                   /\ data' = None
                   /\ remaining' = remaining
                   /\ rejects' = rejects
                   /\ Raised

\* One pass of `while remaining:` up to _append_blocks' batch PATCH.
AppendBatch ==
    /\ pc = "append"
    /\ UNCHANGED <<files, blocks, data, errlog, bvars, cvars, result, kvars>>
    /\ \E ans \in Answers :
         /\ batch' = NextBatch(remaining)
         /\ remaining' = AfterBatch(remaining)
         /\ net' = Append(net, Request("append", batch', ans))
         /\ idx' = 0
         /\ CASE ans = "ok" ->
                   /\ page' = page \o batch'
                   /\ rejects' = rejects
                   /\ AppendLoop(remaining', data, SLEEP_BATCH)
              [] ans = "reject" ->
                   /\ page' = page
                   /\ rejects' = rejects + 1
                   /\ pc' = "single"
                   /\ pause' = 0
                   /\ UNCHANGED <<results, fileIdx>>
              [] ans = "raise" ->
                   /\ page' = page
                   /\ rejects' = rejects
                   /\ Raised

\* One pass of `for idx, block in enumerate(blocks)`: the singleton PATCH.
AppendSingle ==
    /\ pc = "single"
    /\ UNCHANGED <<files, blocks, remaining, batch, data, bvars, cvars, result, kvars>>
    /\ \E ans \in SingleAnswers(idx, Len(batch)) :
         LET children == SingleChildren(batch, idx)
             slept == IF ans = "ok" THEN SLEEP_SINGLE ELSE 0
         IN /\ net' = Append(net, Request("single", children, ans))
            /\ idx' = NextIdx(idx)
            /\ CASE ans = "ok" ->
                      /\ page' = page \o children
                      /\ errlog' = errlog
                      /\ rejects' = rejects
                 [] ans = "reject" ->
                      /\ page' = page
                      /\ errlog' = Append(errlog, [idx |-> idx])
                      /\ rejects' = rejects
                 [] ans = "raise" ->
                      /\ page' = page
                      /\ errlog' = errlog
                      /\ rejects' = rejects
            /\ IF ans = "raise"
               THEN Raised
               ELSE IF SinglesLeft(idx', batch, ans)
                    THEN /\ pc' = "single"
                         /\ pause' = slept
                         /\ UNCHANGED <<results, fileIdx>>
                    ELSE AppendLoop(remaining, data, slept + SLEEP_BATCH)

\* No document is being built.
BuilderIdle ==
    /\ lines = <<>>
    /\ line_i = 0
    /\ built = <<>>
    /\ block_i = 0
    /\ final_blocks = <<>>

\* No text is being converted.
ConverterIdle ==
    /\ cv_in = <<>>
    /\ cv_pc = "idle"
    /\ cv_lines = <<>>
    /\ cv_i = 0
    /\ cv_result = <<>>
    /\ in_block_math = FALSE
    /\ converted = <<>>

\* _chunk_text is not being called.
ChunkerIdle ==
    /\ ck_pc = "idle"
    /\ ck_content = <<>>
    /\ ck_annotations = "none"
    /\ ck_chunks = <<>>

Init ==
    /\ result = None
    /\ ChunkerIdle
    /\ BuilderIdle
    /\ ConverterIdle
    /\ files \in FileCounts
    /\ fileIdx = 1
    /\ pc = "create"
    /\ blocks = <<>>
    /\ remaining = <<>>
    /\ batch = <<>>
    /\ idx = 0
    /\ data = None
    /\ page = <<>>
    /\ net = <<>>
    /\ errlog = <<>>
    /\ results = <<>>
    /\ pause = 0
    /\ rejects = 0

Next ==
    \/ CreatePage
    \/ CreateEmptyPage
    \/ AppendBatch
    \/ AppendSingle

Spec == Init /\ [][Next]_vars

----------------------------------------------------------------------------
(* NotionBlockBuilder.build_blocks.                                        *)

\* The documents build_blocks is run on: a body line in a frame of lines.
MaxRun == 5000
MaxSpans == 201

RunLengths == {1, MAX_TEXT_LENGTH, MAX_TEXT_LENGTH + 1, MaxRun}
SpanCounts == {2, MAX_RICH_TEXT_ELEMENTS, MAX_RICH_TEXT_ELEMENTS + 1, MaxSpans}

Wraps == {"plain", "bold", "italic", "code", "link", "equation"}

\* A run of n letters.
Letters(n) == [k \in 1..n |-> "a"]

\* The markup of one inline span of kind w around the text t.
Wrapped(w, t) ==
    CASE w = "plain" -> t
      [] w = "bold" -> <<"*", "*">> \o t \o <<"*", "*">>
      [] w = "italic" -> <<"*">> \o t \o <<"*">>
      [] w = "code" -> <<BQ>> \o t \o <<BQ>>
      [] w = "link" -> <<"[">> \o t \o <<"]", "(", "u", ")">>
      [] w = "equation" -> <<"$", BQ>> \o t \o <<BQ, "$">>

\* The text piece n times over.
Repeated(piece, n) ==
    [k \in 1..(n * Len(piece)) |-> piece[((k - 1) % Len(piece)) + 1]]

Bodies ==
    {Wrapped(w, Letters(n)) : w \in Wraps, n \in RunLengths}
    \cup {Repeated(Wrapped(w, <<"a">>), n) : w \in Wraps \ {"plain"}, n \in SpanCounts}

Frames ==
    {"paragraph", "heading", "quote", "bullet", "numbered", "code",
     "code_open", "math", "math_open", "mixed"}

\* The lines of the document that puts the body b into the frame f.
Framed(f, b) ==
    CASE f = "paragraph" -> <<b, <<"x">>>>
      [] f = "heading" -> <<<<"#", "#", " ">> \o b>>
      [] f = "quote" -> <<<<">", " ">> \o b, <<" ", ">", " ", "x">>>>
      [] f = "bullet" -> <<<<"-", " ">> \o b>>
      [] f = "numbered" -> <<<<"1", ".", " ">> \o b>>
      [] f = "code" -> <<Fence \o <<"p", "y">>, b, <<"x">>, Fence>>
      [] f = "code_open" -> <<Fence, b>>
      [] f = "math" -> <<MathMarker, b, MathMarker>>
      [] f = "math_open" -> <<MathMarker, b>>
      [] f = "mixed" -> <<<<>>, b, <<"-", "-", "-">>, <<"x">>>>

\* The longest run of lines after a math marker.
MaxMathLines == 51

MathSizes == {0, 1, MATH_LINES_LIMIT - 1, MATH_LINES_LIMIT, MaxMathLines}

\* A math marker, n lines, and the closing marker or a line of text.
MathDocument(n, closed) ==
    <<MathMarker>> \o [k \in 1..n |-> IF k % 2 = 1 THEN <<"m">> ELSE <<" ", "n", " ", "n">>]
    \o <<IF closed THEN <<" ", "$", "$">> ELSE <<"x">>>>

MathDocuments == {MathDocument(n, closed) : n \in MathSizes, closed \in BOOLEAN}

\* The lines the short documents are made of.
ShortLines ==
    {<<"a">>,
     <<"b", " ", "c">>,
     <<>>,
     <<"#", "t", "a", "g">>,
     <<"#", " ", "T">>,
     <<" ", " ", "#", " ", "U">>,
     <<"#">>,
     <<"#", "#", " ", "S">>,
     <<"-", " ", "i">>,
     <<"1", ".", " ", "n">>,
     <<">", " ", "q">>,
     <<BQ, BQ, BQ>>,
     <<"-", "-", "-">>,
     <<"$", "$">>}

ShortDocuments ==
    {<<l>> : l \in ShortLines}
    \cup {<<l, m>> : l \in ShortLines, m \in ShortLines}
    \cup {<<l, m, n>> : l \in ShortLines, m \in ShortLines, n \in ShortLines}

Documents ==
    {Join(<<"\n">>, Framed(f, b)) : f \in Frames, b \in Bodies}
    \cup {Join(<<"\n">>, d) : d \in MathDocuments \cup ShortDocuments}

\* The outer loop is at a line.
Scanning == line_i < Len(lines)

\* line.strip() of the line the outer loop is at
Stripped == Strip(lines[line_i + 1])

\* The outer loop is at a line that takes the branch kind.
At(kind) == Scanning /\ LineKind(Stripped) = kind

\* One pass of the outer loop: i becomes next_i, the blocks are appended.
Pass(next_i, new_blocks) ==
    /\ line_i' = next_i
    /\ built' = built \o new_blocks
    /\ UNCHANGED <<lines, block_i, final_blocks, dvars, cvars, result, kvars>>

BlankLine ==
    /\ At("blank")
    /\ Pass(line_i + 1, <<>>)

MathBlock ==
    /\ At("math")
    /\ LET r == CollectMath(lines, line_i + 1, <<>>)
       IN Pass(r.i,
               IF r.found_closing
               THEN <<Block("equation",
                            [expression |-> Strip(Join(<<"\n">>, r.math_lines))])>>
               ELSE <<RichBlock("paragraph",
                                MathMarker \o Join(<<" ">>, r.math_lines))>>)

CodeFence ==
    /\ At("code")
    /\ LET lang == Strip(Drop(Stripped, 3))
           r == CollectCode(lines, line_i + 1, <<>>)
       IN Pass(r.i + 1, <<CodeBlock(lang, r.code_lines)>>)

Divider ==
    /\ At("divider")
    /\ Pass(line_i + 1, <<Block("divider", <<>>)>>)

Heading ==
    /\ At("heading")
    /\ LET header_match == HeaderMatch(Stripped)
       IN Pass(line_i + 1,
               <<RichBlock(HeadingType(header_match.level), header_match.text)>>)

Quote ==
    /\ At("quote")
    /\ LET r == CollectQuote(lines, line_i + 1, <<Drop(Stripped, 2)>>)
       IN Pass(r.i, <<RichBlock("quote", Join(<<" ">>, r.quote_lines))>>)

Bullet ==
    /\ At("bullet")
    /\ Pass(line_i + 1, <<RichBlock("bulleted_list_item", Drop(Stripped, 2))>>)

Numbered ==
    /\ At("numbered")
    /\ Pass(line_i + 1,
            <<RichBlock("numbered_list_item", NumMatch(Stripped).text)>>)

Paragraph ==
    /\ At("paragraph")
    /\ LET r == CollectParagraph(lines, line_i + 1, <<Stripped>>)
       IN Pass(r.i, <<RichBlock("paragraph", Join(<<" ">>, r.para_lines))>>)

\* One pass of the final loop: the next block, split if needed.
SplitNext ==
    /\ ~Scanning
    /\ block_i < Len(built)
    /\ final_blocks' = final_blocks \o SplitBlockIfNeeded(built[block_i + 1])
    /\ block_i' = block_i + 1
    /\ UNCHANGED <<lines, line_i, built, dvars, cvars, result, kvars>>

\* build_blocks has returned final_blocks.
Returned == ~Scanning /\ block_i = Len(built)

InitBuild ==
    /\ result = None
    /\ ChunkerIdle
    /\ ConverterIdle
    /\ files = 1
    /\ fileIdx = 1
    /\ pc = "create"
    /\ blocks = <<>>
    /\ remaining = <<>>
    /\ batch = <<>>
    /\ idx = 0
    /\ data = None
    /\ page = <<>>
    /\ net = <<>>
    /\ errlog = <<>>
    /\ results = <<>>
    /\ pause = 0
    /\ rejects = 0
    /\ lines \in {SplitLines(text) : text \in Documents}
    /\ line_i = 0
    /\ built = <<>>
    /\ block_i = 0
    /\ final_blocks = <<>>

NextBuild ==
    \/ BlankLine
    \/ MathBlock
    \/ CodeFence
    \/ Divider
    \/ Heading
    \/ Quote
    \/ Bullet
    \/ Numbered
    \/ Paragraph
    \/ SplitNext

SpecBuild == InitBuild /\ [][NextBuild]_vars

\* The documents of one line or two of the short lines.
BriefDocuments ==
    {<<l>> : l \in ShortLines} \cup {<<l, m>> : l \in ShortLines, m \in ShortLines}

InitBuildLive ==
    /\ result = None
    /\ ChunkerIdle
    /\ ConverterIdle
    /\ files = 1
    /\ fileIdx = 1
    /\ pc = "create"
    /\ blocks = <<>>
    /\ remaining = <<>>
    /\ batch = <<>>
    /\ idx = 0
    /\ data = None
    /\ page = <<>>
    /\ net = <<>>
    /\ errlog = <<>>
    /\ results = <<>>
    /\ pause = 0
    /\ rejects = 0
    /\ lines \in {SplitLines(Join(<<"\n">>, d)) : d \in BriefDocuments}
    /\ line_i = 0
    /\ built = <<>>
    /\ block_i = 0
    /\ final_blocks = <<>>

\* build_blocks runs on: no pass of its loops waits for anything.
SpecBuildLive == InitBuildLive /\ [][NextBuild]_vars /\ WF_vars(NextBuild)

----------------------------------------------------------------------------
(* BatchProcessor.process_file from build_blocks on: the converted text is *)
(* segmented, then the units are delivered.                                *)

\* The longest list document.
MaxBullets == 250

BulletCounts == {1, PAGE_BATCH, PAGE_BATCH + 1, 2 * PAGE_BATCH, MaxBullets}

\* n bullet lines.
BulletText(n) == SubSeq(Repeated(<<"-", " ", "a", "\n">>, n), 1, 4 * n - 1)

FileDocuments == {BulletText(n) : n \in BulletCounts}

\* create_page(title, blocks, parent): blocks are the units build_blocks
\* returned, named by their index in final_blocks.
UploadBuilt ==
    /\ lines # <<>>
    /\ Returned
    /\ CreatePageOf(Units(Len(final_blocks)))

InitFile ==
    /\ result = None
    /\ ChunkerIdle
    /\ ConverterIdle
    /\ files = 1
    /\ fileIdx = 1
    /\ pc = "create"
    /\ blocks = <<>>
    /\ remaining = <<>>
    /\ batch = <<>>
    /\ idx = 0
    /\ data = None
    /\ page = <<>>
    /\ net = <<>>
    /\ errlog = <<>>
    /\ results = <<>>
    /\ pause = 0
    /\ rejects = 0
    /\ lines \in {SplitLines(text) : text \in FileDocuments}
    /\ line_i = 0
    /\ built = <<>>
    /\ block_i = 0
    /\ final_blocks = <<>>

NextFile ==
    \/ Bullet
    \/ SplitNext
    \/ UploadBuilt
    \/ CreateEmptyPage
    \/ AppendBatch
    \/ AppendSingle

SpecFile == InitFile /\ [][NextFile]_vars

----------------------------------------------------------------------------
(* LatexToNotionConverter.convert, and convert applied to its own output.  *)

\* The longest formula body, in lines.
MaxBodyLines == 33

\* How often convert is applied: to the text, then to its output.
Rounds == 2

\* The lines the small documents are made of.
PaletteLines ==
    {<<"a">>,
     <<>>,
     <<"$", "$">>,
     <<"$", "$", "a", "$", "$">>,
     <<"$", "$", "a">>,
     <<"a", "$", "$">>,
     <<"$", "x", "$">>,
     <<"$", "1", "0", "0", " ", "a", "n", "d", " ", "$", "3", ".", "5", "0">>,
     <<"$", BQ, "y", BQ, "$", " ", "a", "n", "d", " ", "$", "x", "$">>}

PaletteDocs ==
    {<<l>> : l \in PaletteLines}
    \cup {<<l, m>> : l \in PaletteLines, m \in PaletteLines}
    \cup {<<l, m, n>> : l \in PaletteLines, m \in PaletteLines, n \in PaletteLines}

BodySizes == {1, 2, MATH_SEARCH_LIMIT, MATH_SEARCH_LIMIT + 1, MATH_SEARCH_LIMIT + 2,
              MaxBodyLines}

\* A formula body of n lines.
Body(n) == [k \in 1..n |-> IF k % 2 = 1 THEN <<"b">> ELSE <<"c", " ", "c">>]

Spellings == {"single", "standard", "open_inline", "close_inline", "leading"}

\* Whether the spelling can hold a body of n lines.
Spells(sp, n) ==
    CASE sp = "single" -> n = 1
      [] sp = "open_inline" -> n = 1
      [] sp = "leading" -> n > 1
      [] OTHER -> TRUE

\* The lines of the block formula with the body in the spelling.
Spelled(sp, body) ==
    LET n == Len(body)
    IN CASE sp = "single" -> <<MathMarker \o body[1] \o MathMarker>>
         [] sp = "standard" -> <<MathMarker>> \o body \o <<MathMarker>>
         [] sp \in {"open_inline", "leading"} ->
               <<MathMarker \o body[1]>> \o SubSeq(body, 2, n) \o <<MathMarker>>
         [] sp = "close_inline" ->
               <<MathMarker>> \o SubSeq(body, 1, n - 1) \o <<body[n] \o MathMarker>>

\* The block formula without its closing marker.
Unclosed(sp, body) ==
    IF sp = "standard" THEN <<MathMarker>> \o body
    ELSE <<MathMarker \o body[1]>> \o SubSeq(body, 2, Len(body))

FormulaDocs ==
    {Spelled(sp, Body(n)) : sp \in Spellings, n \in BodySizes}
    \cup {Unclosed(sp, Body(n)) : sp \in {"standard", "leading"}, n \in BodySizes}

SpelledDocs == {d \in FormulaDocs : \E sp \in Spellings, n \in BodySizes :
                    Spells(sp, n) /\ d = Spelled(sp, Body(n))}

ConvertTexts ==
    {Join(<<"\n">>, d) : d \in PaletteDocs \cup FormulaDocs}
    \cup {<<"a", "\r", "\n", "$", "x", "$", "\n", "\n", "\n", "\n", "\n", "a">>}

\* convert up to the loop of _convert_block_math
Convert ==
    /\ cv_pc = "convert"
    /\ cv_lines' = SplitLines(ReplaceCRLF(cv_in))
    /\ cv_i' = 0
    /\ cv_result' = <<>>
    /\ cv_pc' = "block_math"
    /\ UNCHANGED <<cv_in, in_block_math, converted, dvars, bvars, result, kvars>>

\* _convert_block_math's outer loop is at a line that takes the branch.
AtBlockMath(kind) ==
    /\ cv_pc = "block_math"
    /\ cv_i < Len(cv_lines)
    /\ BlockMathKind(cv_lines[cv_i + 1]) = kind

\* One pass of a loop of the converter: i becomes next_i, the lines are
\* appended to result.
ConvertPass(next_i, new_lines) ==
    /\ cv_i' = next_i
    /\ cv_result' = cv_result \o new_lines
    /\ UNCHANGED <<cv_in, cv_pc, cv_lines, converted, dvars, bvars, result, kvars>>

\* A line that does not start with the marker is kept.
BlockMathOther ==
    /\ AtBlockMath("other")
    /\ ConvertPass(cv_i + 1, <<cv_lines[cv_i + 1]>>)
    /\ UNCHANGED in_block_math

\* Case 1: marker, formula and marker on one line.
BlockMathSingle ==
    /\ AtBlockMath("single")
    /\ LET content_after_open == Strip(Drop(Strip(cv_lines[cv_i + 1]), 2))
           formula == Strip(SubSeq(content_after_open, 1, Len(content_after_open) - 2))
       IN ConvertPass(cv_i + 1, CanonicalBlock(formula))
    /\ UNCHANGED in_block_math

\* Case 2: a line that opens a formula; the closing marker is searched.
BlockMathOpened ==
    /\ AtBlockMath("opened")
    /\ LET line == cv_lines[cv_i + 1]
           content_after_open == Strip(Drop(Strip(line), 2))
           r == CloseSearch(cv_lines, cv_i + 1,
                            IF content_after_open # <<>> THEN <<content_after_open>>
                                                         ELSE <<>>)
       IN ConvertPass(r.i,
                      IF r.found_closing /\ r.math_lines # <<>>
                      THEN CanonicalBlock(Strip(Join(<<"\n">>, r.math_lines)))
                      ELSE <<line>> \o r.math_lines)
    /\ UNCHANGED in_block_math

\* _convert_block_math returns the joined result; _convert_inline_math
\* splits it again.
BlockMathReturn ==
    /\ cv_pc = "block_math"
    /\ cv_i >= Len(cv_lines)
    /\ cv_lines' = SplitLines(Join(<<"\n">>, cv_result))
    /\ cv_i' = 0
    /\ cv_result' = <<>>
    /\ in_block_math' = FALSE
    /\ cv_pc' = "inline_math"
    /\ UNCHANGED <<cv_in, converted, dvars, bvars, result, kvars>>

\* _convert_inline_math's loop is at a line that takes the branch.
AtInlineMath(kind) ==
    /\ cv_pc = "inline_math"
    /\ cv_i < Len(cv_lines)
    /\ InlineKind(cv_lines[cv_i + 1], in_block_math) = kind

\* A marker line toggles in_block_math.
InlineMathToggle ==
    /\ AtInlineMath("toggle")
    /\ in_block_math' = ~in_block_math
    /\ ConvertPass(cv_i + 1, <<cv_lines[cv_i + 1]>>)

\* A line inside a block formula, or with a canonical marker, is kept.
InlineMathKept ==
    /\ AtInlineMath("kept")
    /\ ConvertPass(cv_i + 1, <<cv_lines[cv_i + 1]>>)
    /\ UNCHANGED in_block_math

\* re.sub with replace_inline on the line
InlineMathSubstituted ==
    /\ AtInlineMath("substituted")
    /\ ConvertPass(cv_i + 1, <<InlineSub(cv_lines[cv_i + 1], 1)>>)
    /\ UNCHANGED in_block_math

\* _convert_inline_math returns, convert collapses newlines, strips and
\* returns; the caller then applies convert to the text returned.
\* convert's return value once _convert_inline_math has gone through the
\* lines.
ConvertedText == Strip(CollapseNewlines(Join(<<"\n">>, cv_result)))

ConvertReturn ==
    /\ cv_pc = "inline_math"
    /\ cv_i >= Len(cv_lines)
    /\ LET text == ConvertedText
       IN /\ converted' = Append(converted, text)
          /\ IF Len(converted') < Rounds
             THEN cv_in' = text /\ cv_pc' = "convert"
             ELSE cv_in' = cv_in /\ cv_pc' = "returned"
    /\ UNCHANGED <<cv_lines, cv_i, cv_result, in_block_math, dvars, bvars, result, kvars>>

InitConvert ==
    /\ result = None
    /\ ChunkerIdle
    /\ BuilderIdle
    /\ files = 1
    /\ fileIdx = 1
    /\ pc = "create"
    /\ blocks = <<>>
    /\ remaining = <<>>
    /\ batch = <<>>
    /\ idx = 0
    /\ data = None
    /\ page = <<>>
    /\ net = <<>>
    /\ errlog = <<>>
    /\ results = <<>>
    /\ pause = 0
    /\ rejects = 0
    /\ cv_in \in ConvertTexts
    /\ cv_pc = "convert"
    /\ cv_lines = <<>>
    /\ cv_i = 0
    /\ cv_result = <<>>
    /\ in_block_math = FALSE
    /\ converted = <<>>

NextConvert ==
    \/ Convert
    \/ BlockMathOther
    \/ BlockMathSingle
    \/ BlockMathOpened
    \/ BlockMathReturn
    \/ InlineMathToggle
    \/ InlineMathKept
    \/ InlineMathSubstituted
    \/ ConvertReturn

SpecConvert == InitConvert /\ [][NextConvert]_vars

----------------------------------------------------------------------------
(* The final loop of build_blocks (_split_block_if_needed on every block)  *)
(* on block lists given directly.                                          *)

\* The largest span list of a block given to the loop.
MaxUnitSpans == 250

UnitSpanCounts ==
    {0, 1, MAX_RICH_TEXT_ELEMENTS, MAX_RICH_TEXT_ELEMENTS + 1,
     2 * MAX_RICH_TEXT_ELEMENTS, MaxUnitSpans}

\* n text spans that differ from their neighbours.
SomeSpans(n) ==
    [k \in 1..n |-> [type |-> "text", content |-> Letters(1 + (k % 7)),
                     annotations |-> "none"]]

\* The blocks the loop is run on: with a span list only, with a span list
\* and a language, and without a span list.
SomeBlocks ==
    {Block("paragraph", [rich_text |-> SomeSpans(n)]) : n \in UnitSpanCounts}
    \cup {Block("code", [rich_text |-> SomeSpans(n), language |-> <<"p", "y">>]) :
             n \in UnitSpanCounts}
    \cup {Block("divider", <<>>), Block("equation", [expression |-> <<"x">>])}

SomeBlockLists ==
    {<<b>> : b \in SomeBlocks} \cup {<<b, c>> : b \in SomeBlocks, c \in SomeBlocks}

\* The final loop as a function of the block list.
RECURSIVE Enforce(_)
Enforce(bs) ==
    IF bs = <<>> THEN <<>>
    ELSE SplitBlockIfNeeded(Head(bs)) \o Enforce(Tail(bs))

InitEnforce ==
    /\ result = None
    /\ ChunkerIdle
    /\ ConverterIdle
    /\ files = 1
    /\ fileIdx = 1
    /\ pc = "create"
    /\ blocks = <<>>
    /\ remaining = <<>>
    /\ batch = <<>>
    /\ idx = 0
    /\ data = None
    /\ page = <<>>
    /\ net = <<>>
    /\ errlog = <<>>
    /\ results = <<>>
    /\ pause = 0
    /\ rejects = 0
    /\ lines = <<>>
    /\ line_i = 0
    /\ built \in SomeBlockLists
    /\ block_i = 0
    /\ final_blocks = <<>>

SpecEnforce == InitEnforce /\ [][SplitNext]_vars

----------------------------------------------------------------------------
(* process_file without upload: convert, build_blocks, the result with the *)
(* title.                                                                  *)

\* filepath.stem.
Stem == <<"s", "t", "e", "m">>

\* Where group 1 of '^#\s+(.+)' starts for the '#' at p, 0 when the pattern
\* does not match there: \s+ takes as much whitespace (newlines included)
\* as leaves a character other than a newline for (.+).
TitleGroupStart(text, p) ==
    LET run == RunLength(text, p + 1, {" ", "\t", "\n", "\r"})
        taken == {k \in 1..run :
                     p + 1 + k <= Len(text) /\ text[p + 1 + k] # "\n"}
    IN IF taken = {} THEN 0
       ELSE p + 1 + (CHOOSE k \in taken : \A j \in taken : j <= k)

\* _extract_title: re.search with re.MULTILINE, group(1).strip(), else the
\* stem.
ExtractTitle(text, stem) ==
    LET starts == {p \in 1..Len(text) :
                      /\ text[p] = "#"
                      /\ (p = 1 \/ text[p - 1] = "\n")
                      /\ TitleGroupStart(text, p) # 0}
    IN IF starts = {} THEN stem
       ELSE LET from == TitleGroupStart(text, Least(starts))
                nl == Find(text, "\n", from)
                to == IF nl = 0 THEN Len(text) ELSE nl - 1
            IN Strip(SubSeq(text, from, to))

\* The lines the files are made of.
FileLines ==
    {<<"a">>,
     <<>>,
     <<"#", " ", "T">>,
     <<" ", " ", "#", " ", "U">>,
     <<"#">>,
     <<"#", " ", "$", "x", "$">>,
     <<"-", " ", "i">>,
     <<"1", ".", " ", "n">>,
     <<">", " ", "q">>,
     <<BQ, BQ, BQ>>,
     <<"-", "-", "-">>,
     <<"$", "$">>,
     <<"$", "$", "f", "$", "$">>,
     <<"$", "$", "f">>,
     <<"$", "x", "$">>}

FileTexts ==
    {Join(<<"\n">>, d) :
        d \in {<<l>> : l \in FileLines}
              \cup {<<l, m>> : l \in FileLines, m \in FileLines}
              \cup {<<l, m, n>> : l \in FileLines, m \in FileLines,
                                  n \in FileLines}}

\* convert returns and build_blocks starts on the converted text.
BuildConverted ==
    /\ cv_pc = "inline_math"
    /\ cv_i >= Len(cv_lines)
    /\ converted' = <<ConvertedText>>
    /\ cv_pc' = "returned"
    /\ lines' = SplitLines(ConvertedText)
    /\ line_i' = 0
    /\ built' = <<>>
    /\ block_i' = 0
    /\ final_blocks' = <<>>
    /\ UNCHANGED <<cv_in, cv_lines, cv_i, cv_result, in_block_math, dvars,
                   result, kvars>>

\* build_blocks has returned: the result dict, its title taken from the
\* text as read.
MakeResult ==
    /\ cv_pc = "returned"
    /\ Returned
    /\ result = None
    /\ result' = [title |-> ExtractTitle(cv_in, Stem),
                  blocks_count |-> Len(final_blocks),
                  converted_text |-> converted[1]]
    /\ UNCHANGED <<dvars, bvars, cvars, kvars>>

InitProcess ==
    /\ result = None
    /\ ChunkerIdle
    /\ BuilderIdle
    /\ files = 1
    /\ fileIdx = 1
    /\ pc = "create"
    /\ blocks = <<>>
    /\ remaining = <<>>
    /\ batch = <<>>
    /\ idx = 0
    /\ data = None
    /\ page = <<>>
    /\ net = <<>>
    /\ errlog = <<>>
    /\ results = <<>>
    /\ pause = 0
    /\ rejects = 0
    /\ cv_in \in FileTexts
    /\ cv_pc = "convert"
    /\ cv_lines = <<>>
    /\ cv_i = 0
    /\ cv_result = <<>>
    /\ in_block_math = FALSE
    /\ converted = <<>>

NextProcess ==
    \/ Convert
    \/ BlockMathOther
    \/ BlockMathSingle
    \/ BlockMathOpened
    \/ BlockMathReturn
    \/ InlineMathToggle
    \/ InlineMathKept
    \/ InlineMathSubstituted
    \/ BuildConverted
    \/ BlankLine
    \/ MathBlock
    \/ CodeFence
    \/ Divider
    \/ Heading
    \/ Quote
    \/ Bullet
    \/ Numbered
    \/ Paragraph
    \/ SplitNext
    \/ MakeResult

SpecProcess == InitProcess /\ [][NextProcess]_vars

----------------------------------------------------------------------------
(* _chunk_text on its own, on contents of up to MaxContent characters.     *)

\* The longest content has MaxContent characters.
MaxContent == 6001

ContentLengths == {0, 1, 2, 1999, 2000, 2001, 3999, 4000, 4001, 5000, 5999,
                   6000, MaxContent}

\* n characters, every third of them another one.
Content(n, c) == [k \in 1..n |-> IF k % 3 = 0 THEN "b" ELSE c]

Contents == {Content(n, c) : n \in ContentLengths, c \in {"a", "x"}}

\* None, {"bold": True}, {"italic": True}, {"code": True}
Annotations == {"none", "bold", "italic", "code"}

\* The call of _chunk_text up to its return.
ChunkTextCall ==
    /\ ck_pc = "call"
    /\ ck_chunks' = ChunkText(ck_content, ck_annotations)
    /\ ck_pc' = "returned"
    /\ UNCHANGED <<ck_content, ck_annotations, dvars, bvars, cvars, result>>

InitChunk ==
    /\ result = None
    /\ BuilderIdle
    /\ ConverterIdle
    /\ files = 1
    /\ fileIdx = 1
    /\ pc = "create"
    /\ blocks = <<>>
    /\ remaining = <<>>
    /\ batch = <<>>
    /\ idx = 0
    /\ data = None
    /\ page = <<>>
    /\ net = <<>>
    /\ errlog = <<>>
    /\ results = <<>>
    /\ pause = 0
    /\ rejects = 0
    /\ ck_pc = "call"
    /\ ck_content \in Contents
    /\ ck_annotations \in Annotations
    /\ ck_chunks = <<>>

SpecChunk == InitChunk /\ [][ChunkTextCall]_vars


----------------------------------------------------------------------------
(* Reading the request log of the current document.                        *)

Range(s) == {s[i] : i \in 1..Len(s)}

Last(s) == s[Len(s)]

\* The document whose requests `net` holds has been delivered to its end.
DocDone == net # <<>> /\ pc \in {"create", "returned"}

\* The page of the current document exists.
Created == data # None

\* Places of `net` holding a request of kind `op`.
Places(op) == {q \in 1..Len(net) : net[q].op = op}

\* The batch request a singleton retry at place q belongs to: the last of
\* the batch appends `as` before q.
BatchOf(as, q) == CHOOSE p \in as :
                      /\ p < q
                      /\ \A r \in as : r < q => r <= p

\* The children of the batch appends up to place q, concatenated in order.
RECURSIVE Batched(_)
Batched(q) ==
    IF q = 0 THEN <<>>
    ELSE IF net[q].op = "append" THEN Batched(q - 1) \o net[q].children
    ELSE Batched(q - 1)

\* Every unit some request carried.
Submitted == UNION {Range(net[q].children) : q \in 1..Len(net)}

\* The singleton retries that follow the batch append at place p.
RetriesOf(p) == LET as == Places("append")
                IN {q \in Places("single") : BatchOf(as, q) = p}

\* The batch append at place p has been retried to its end.
RetriedToEnd(p) == DocDone \/ pc = "append" \/ \E r \in Places("append") : r > p

----------------------------------------------------------------------------
(* C1: units are delivered in parsed order. Batches are appended at        *)
(* strictly increasing offsets, each a contiguous slice of the block list; *)
(* the singleton retries of a rejected batch go through it in increasing   *)
(* index; what the remote accepted, in order of acceptance, is an          *)
(* order-preserving subsequence of the parsed sequence; and once a created *)
(* page's delivery has ended every unit was carried by some request.       *)
C1_DeliveredInParsedOrder ==
    /\ \A q \in Places("append") :
         LET c == net[q].children
         IN /\ c # <<>>
            /\ \A k \in 1..Len(c) : c[k] = c[1] + k - 1
            /\ \A r \in Places("append") : r < q => Last(net[r].children) < c[1]
    /\ \A q \in Places("single") :
         /\ net[q - 1].op \in {"append", "single"}
         /\ net[q - 1].op = "single" =>
                net[q].children[1] = net[q - 1].children[1] + 1
         /\ net[q - 1].op = "append" =>
                net[q].children[1] = net[q - 1].children[1]
    /\ \A k \in 1..(Len(page) - 1) : page[k] < page[k + 1]
    /\ (DocDone /\ Created) => Range(blocks) \subseteq Submitted

\* A document of more than two batches delivered to its end after a rejected
\* creation, a rejected batch and a rejected singleton.
C1_Witness ==
    /\ DocDone /\ Created
    /\ Len(blocks) > 2 * PAGE_BATCH
    /\ net[1].ans = "reject"
    /\ \E q \in Places("append") : net[q].ans = "reject"
    /\ errlog # <<>>
    /\ Len(page) = Len(blocks) - Len(errlog)

----------------------------------------------------------------------------
(* C2: no request carries more than 100 units in its children array: not   *)
(* the creation with initial content, the empty-page creation, a batch     *)
(* append or a singleton retry, however long the block list is.            *)
C2_AtMost100UnitsPerRequest ==
    \A q \in 1..Len(net) : Len(net[q].children) <= 100

\* A document longer than two batches for which all four kinds of request
\* were sent, one of them with 100 units.
C2_Witness ==
    /\ Len(blocks) > 200
    /\ \E q \in Places("create") : Len(net[q].children) = 100
    /\ \E q \in Places("create") : net[q].children = <<>>
    /\ \E q \in Places("append") : Len(net[q].children) = 100
    /\ Places("single") # {}

----------------------------------------------------------------------------
(* C3: after a rejected batch append every unit of the batch is sent       *)
(* alone, exactly once and in batch order, also after a rejected unit; a   *)
(* unit is on the page exactly when its singleton was accepted; and the    *)
(* failure records are, in order, the batch indexes of the rejected        *)
(* singletons: one record per rejected unit, none for an accepted one.     *)
C3_SingletonRetryOfRejectedBatch ==
    LET as == Places("append")
        onPage == Range(page)
        rejected == SelectSeq([q \in 1..Len(net) |-> q],
                      LAMBDA q : net[q].op = "single" /\ net[q].ans = "reject")
    IN /\ \A q \in Places("single") :
            LET p == BatchOf(as, q)
                b == net[p].children
            IN /\ net[p].ans = "reject"
               /\ q - p <= Len(b)
               /\ net[q - 1].op = "single" \/ q - 1 = p
               /\ net[q].children = <<b[q - p]>>
               /\ (net[q].ans = "ok") <=> (b[q - p] \in onPage)
       /\ \A p \in as :
            (net[p].ans = "reject" /\ RetriedToEnd(p)) =>
                Cardinality(RetriesOf(p)) = Len(net[p].children)
       /\ Len(errlog) = Len(rejected)
       /\ \A j \in 1..Len(errlog) :
            errlog[j].idx = rejected[j] - BatchOf(as, rejected[j]) - 1

\* A rejected batch of 100 units of which only unit #47 was rejected when
\* sent alone: 99 units accepted, one failure record, for index 47.
C3_Witness ==
    \E p \in Places("append") :
        /\ net[p].ans = "reject"
        /\ Len(net[p].children) = 100
        /\ RetriedToEnd(p)
        /\ \A q \in RetriesOf(p) : net[q].ans = "reject" <=> q - p - 1 = 47
        /\ Cardinality(Range(net[p].children) \cap Range(page)) = 99
        /\ errlog = <<[idx |-> 47]>>

----------------------------------------------------------------------------
(* C4: the first request is the creation with the first <= 100 units. If   *)
(* it is rejected the creation is retried exactly once, with no units, and *)
(* if that is accepted all units, from index 0, are pending append         *)
(* content; if the first creation is accepted the units from index 100 on  *)
(* are. (Pending content: what was batched so far, then `remaining`.)      *)
C4_EmptyPageFallback ==
    net # <<>> =>
        /\ net[1].op = "create"
        /\ net[1].children = SubSeq(blocks, 1, Min(100, Len(blocks)))
        /\ \A q \in Places("create") : q <= 2
        /\ (2 \in Places("create")) =>
               net[1].ans = "reject" /\ net[2].children = <<>>
        /\ (net[1].ans = "reject" /\ pc # "create_empty") => Len(net) >= 2
        /\ (Len(net) >= 2 /\ net[1].ans = "reject" /\ net[2].ans = "ok") =>
               Batched(Len(net)) \o remaining = blocks
        /\ net[1].ans = "ok" =>
               Batched(Len(net)) \o remaining = SubSeq(blocks, 101, Len(blocks))

\* A document of more than 100 units whose first creation was rejected and
\* whose empty page then took a batch starting at unit 0.
C4_Witness ==
    /\ Len(net) >= 3
    /\ Len(blocks) > 100
    /\ net[1].ans = "reject"
    /\ net[2].ans = "ok"
    /\ net[3].op = "append" /\ net[3].children[1] = 0 /\ net[3].ans = "ok"

----------------------------------------------------------------------------
(* C5: when the creation with initial content and the empty creation are   *)
(* both rejected, delivery ends there: create_page returned None,          *)
(* process_file recorded an error, no append request was sent and the      *)
(* remote holds no unit of the document.                                   *)
C5_FailedWhenBothCreationsRejected ==
    (Len(net) >= 2 /\ net[1].ans = "reject" /\ net[2].ans = "reject") =>
        /\ Len(net) = 2
        /\ DocDone
        /\ ~Created
        /\ results # <<>>
        /\ DOMAIN Last(results) = {"blocks_count", "error"}
        /\ Last(results).blocks_count = Len(blocks)
        /\ page = <<>>

\* Both creations of a non-empty document were rejected.
C5_Witness ==
    /\ Len(net) = 2
    /\ net[1].ans = "reject"
    /\ net[2].ans = "reject"
    /\ Len(blocks) > 100

----------------------------------------------------------------------------
(* C6: a document whose page was created is reported as created, with id   *)
(* and URL, however many units were rejected, and what the caller receives *)
(* for it enumerates the rejected units.                                   *)
RejectionsReported(r) == IF "rejected" \in DOMAIN r THEN r.rejected ELSE <<>>

C6_CreatedWithRejectionsEnumerated ==
    (DocDone /\ Created) =>
        /\ results # <<>>
        /\ {"notion_id", "notion_url"} \subseteq DOMAIN Last(results)
        /\ RejectionsReported(Last(results)) = errlog

----------------------------------------------------------------------------
(* C7: the delivery engine never raises: a transport failure of a request  *)
(* is turned into result data and the run goes on.                         *)
C7_EngineNeverRaises == pc # "raised"

----------------------------------------------------------------------------
(* C8: a pacing delay elapses between any two consecutive requests of a    *)
(* document's delivery, also when the earlier of the two failed.           *)
C8_PacedBetweenRequests ==
    \A q \in 2..Len(net) : net[q].gap > 0

----------------------------------------------------------------------------
(* C9: every span of every unit build_blocks returns has text content of   *)
(* at most 2000 characters: plain and styled text, the text of link spans  *)
(* and the raw text of fenced code blocks.                                 *)
SpansOf(unit) ==
    IF "rich_text" \in DOMAIN unit.inner THEN unit.inner.rich_text ELSE <<>>

TextWithinLimit(unit) ==
    \A k \in 1..Len(SpansOf(unit)) :
        LET span == SpansOf(unit)[k]
        IN span.type = "text" => Len(span.content) <= MAX_TEXT_LENGTH

C9_SpanTextWithinLimit ==
    \A u \in 1..Len(final_blocks) : TextWithinLimit(final_blocks[u])

----------------------------------------------------------------------------
(* C10: every unit build_blocks returns has at most 100 spans. A unit with *)
(* more than 100 spans is replaced, at its position, by ceil(count / 100)  *)
(* consecutive units of the same tag whose span lists, concatenated in     *)
(* order, are the original span list and which each carry every non-span   *)
(* attribute of the original; a unit within the limit passes unchanged,    *)
(* and the order of the units is kept.                                     *)
SpanCount(unit) == Len(SpansOf(unit))

\* The number of units that stand for the unit after enforcement.
UnitsFor(unit) ==
    IF SpanCount(unit) > MAX_RICH_TEXT_ELEMENTS
    THEN (SpanCount(unit) + MAX_RICH_TEXT_ELEMENTS - 1) \div MAX_RICH_TEXT_ELEMENTS
    ELSE 1

\* The number of units that stand for the first n units of the list.
RECURSIVE UnitsBefore(_, _)
UnitsBefore(units, n) ==
    IF n = 0 THEN 0 ELSE UnitsBefore(units, n - 1) + UnitsFor(units[n])

RECURSIVE SpansConcat(_)
SpansConcat(units) ==
    IF units = <<>> THEN <<>>
    ELSE SpansOf(Head(units)) \o SpansConcat(Tail(units))

\* The units out stand for the unit as the property demands.
StandFor(out, unit) ==
    /\ Len(out) = UnitsFor(unit)
    /\ IF SpanCount(unit) <= MAX_RICH_TEXT_ELEMENTS
       THEN out = <<unit>>
       ELSE /\ SpansConcat(out) = SpansOf(unit)
            /\ \A k \in 1..Len(out) :
                  /\ out[k].type = unit.type
                  /\ SpanCount(out[k]) \in 1..MAX_RICH_TEXT_ELEMENTS
                  /\ DOMAIN out[k].inner = DOMAIN unit.inner
                  /\ \A key \in DOMAIN unit.inner \ {"rich_text"} :
                        out[k].inner[key] = unit.inner[key]

\* The unit with a language attribute, as a code unit has one.
WithLanguage(unit) ==
    Block(unit.type,
          [key \in DOMAIN unit.inner \cup {"language"} |->
              IF key = "language" THEN <<"p", "y">> ELSE unit.inner[key]])

C10_SplitIntoUnitsOfAtMost100Spans ==
    /\ Len(final_blocks) = UnitsBefore(built, block_i)
    /\ \A u \in 1..Len(final_blocks) :
          SpanCount(final_blocks[u]) <= MAX_RICH_TEXT_ELEMENTS
    /\ \A j \in 1..block_i :
          /\ StandFor(SubSeq(final_blocks,
                             UnitsBefore(built, j - 1) + 1,
                             UnitsBefore(built, j)),
                      built[j])
          /\ StandFor(SplitBlockIfNeeded(WithLanguage(built[j])),
                      WithLanguage(built[j]))

C10_Witness ==
    /\ Returned
    /\ built # <<>>
    /\ \E j \in 1..Len(built) : SpanCount(built[j]) = MaxSpans
    /\ Len(final_blocks) = Len(built) + 2

----------------------------------------------------------------------------
(* C11: the size enforcer is idempotent: _split_block_if_needed applied to *)
(* every unit of an already enforced sequence returns the same sequence,   *)
(* unit for unit.                                                          *)
C11_EnforcerIdempotent ==
    /\ Enforce(final_blocks) = final_blocks
    /\ \A u \in 1..Len(final_blocks) :
          SplitBlockIfNeeded(final_blocks[u]) = <<final_blocks[u]>>

C11_Witness ==
    /\ Returned
    /\ Len(built) = 2
    /\ built[1].type = "code"
    /\ SpanCount(built[1]) = MaxUnitSpans
    /\ Len(final_blocks) > Len(built) + 1

----------------------------------------------------------------------------
(* C12: when the remote accepts every request, n >= 1 units are delivered  *)
(* in exactly ceil(n / 100) requests, the creation first, then appends;    *)
(* request k (from 0) carries the units at indices 100k .. min(100k + 99,  *)
(* n - 1). 250 bullet lines give 250 bulleted_list_item units, delivered   *)
(* as 100 / 100 / 50.                                                      *)
AllAccepted == \A q \in 1..Len(net) : net[q].ans = "ok"

\* The indices from .. to, in order.
Indices(from, to) == [j \in 1..(to - from + 1) |-> from + j - 1]

AllBulletLines == \A l \in 1..Len(lines) : LineKind(Strip(lines[l])) = "bullet"

C12_DeliveredInCeilRequests ==
    /\ (Returned /\ AllBulletLines) =>
          /\ Len(final_blocks) = Len(lines)
          /\ \A u \in 1..Len(final_blocks) :
                final_blocks[u].type = "bulleted_list_item"
    /\ (DocDone /\ pc = "returned" /\ AllAccepted /\ Len(blocks) >= 1) =>
          LET n == Len(blocks)
          IN /\ n = Len(final_blocks)
             /\ Len(net) = (n + 99) \div 100
             /\ \A k \in 0..(Len(net) - 1) :
                   /\ net[k + 1].op = IF k = 0 THEN "create" ELSE "append"
                   /\ net[k + 1].children = Indices(100 * k, Min(100 * k + 99, n - 1))
             /\ page = Indices(0, n - 1)

C12_Witness ==
    /\ pc = "returned"
    /\ AllAccepted
    /\ Len(lines) = MaxBullets
    /\ Len(net) = 3
    /\ Len(net[1].children) = PAGE_BATCH
    /\ Len(net[2].children) = PAGE_BATCH
    /\ Len(net[3].children) = MaxBullets - 2 * PAGE_BATCH
    /\ final_blocks[MaxBullets].type = "bulleted_list_item"

----------------------------------------------------------------------------
(* C13: convert is idempotent: convert applied to the text convert has     *)
(* returned returns that same text, also when the block math of the text   *)
(* is, or has just been put, in the canonical form.                        *)
C13_ConvertIdempotent ==
    Len(converted) = Rounds => converted[2] = converted[1]

----------------------------------------------------------------------------
(* C14: for one and the same formula body, _convert_block_math produces    *)
(* the same output lines (empty line, marker, body, marker, empty line)    *)
(* for each of the five block-math spellings.                              *)

\* _convert_block_math has gone through the text convert was first given.
BlockMathDone ==
    /\ cv_pc = "block_math"
    /\ cv_i >= Len(cv_lines)
    /\ converted = <<>>

\* The text is the body of n lines in the spelling, and nothing else.
IsSpelled(sp, n) ==
    /\ Spells(sp, n)
    /\ cv_in = Join(<<"\n">>, Spelled(sp, Body(n)))

\* The output the property names for the body of n lines.
CanonicalLines(n) == << <<>>, <<"$", "$">>, Join(<<"\n">>, Body(n)), <<"$", "$">>, <<>> >>

----------------------------------------------------------------------------
(* C15: when _convert_block_math meets a line starting with the marker for *)
(* which the search for a closing marker is abandoned (end of input, or    *)
(* the safety bound), the lines it emits for the scanned region are        *)
(* exactly the input lines of that region, none changed, dropped or        *)
(* duplicated, and scanning resumes at the first line not emitted.         *)

\* Line j (from 1) of the text closes a block formula.
ClosesFormula(j) ==
    LET t == Strip(cv_lines[j])
    IN Len(t) >= 2 /\ t[Len(t) - 1] = "$" /\ t[Len(t)] = "$"

\* The search that starts at the opening line cv_i + 1 is abandoned: no
\* later line closes, or more than the limit of lines come before the
\* first that does.
SearchAbandoned ==
    LET opening == cv_i + 1
        held == IF Len(Strip(cv_lines[opening])) > 2 THEN 1 ELSE 0
        closing == {j \in (opening + 1)..Len(cv_lines) : ClosesFormula(j)}
    IN \/ closing = {}
       \/ held + (Least(closing) - opening - 1) > MATH_SEARCH_LIMIT + 1

C15_AbandonedSearchEmitsInputLines ==
    [][(AtBlockMath("opened") /\ SearchAbandoned) =>
          /\ cv_i' > cv_i
          /\ cv_result' = cv_result \o SubSeq(cv_lines, cv_i + 1, cv_i')]_vars

----------------------------------------------------------------------------
(* C16: _convert_inline_math never turns a dollar amount into an equation  *)
(* marker: on no line, also not one with two or more amounts separated by  *)
(* other text, does the dollar of an amount end up inside or delimiting a  *)
(* canonical inline-equation marker. Checked on the lines all of whose     *)
(* dollars belong to amounts: no marker can be put into them.              *)
AmountChars == Digits \cup {",", "."}

\* An amount starts at index p of t: a dollar, a digit, further digits,
\* commas and points up to a space or the end of the line.
AmountAt(t, p) ==
    /\ p < Len(t)
    /\ t[p] = "$"
    /\ t[p + 1] \in Digits
    /\ LET last == p + RunLength(t, p + 1, AmountChars)
       IN last = Len(t) \/ t[last + 1] = " "

OnlyAmounts(t) ==
    /\ \E p \in 1..Len(t) : t[p] = "$"
    /\ \A p \in 1..Len(t) : t[p] = "$" => AmountAt(t, p)

\* Line k of _convert_inline_math's input has been gone through in the
\* branch that substitutes.
Substituted(k) ==
    /\ cv_pc = "inline_math"
    /\ k <= Len(cv_result)
    /\ ~Contains2(cv_lines[k], <<"$", BQ>>)

C16_AmountsNeverConverted ==
    \A k \in 1..Len(cv_lines) :
        (Substituted(k) /\ OnlyAmounts(cv_lines[k])) => cv_result[k] = cv_lines[k]

----------------------------------------------------------------------------
(* C17: in the output of convert, every single-dollar span whose content   *)
(* is non-blank and not purely numeric, on a line outside any block        *)
(* formula, has been rewritten to the canonical inline marker, wherever    *)
(* the line stands: also after an unterminated marker line, and on a line  *)
(* that also holds a canonical marker.                                     *)

\* The dollar at index p of t has no dollar and no backtick next to it.
PlainDollar(t, p) ==
    /\ t[p] = "$"
    /\ p = 1 \/ t[p - 1] \notin {"$", BQ}
    /\ p = Len(t) \/ t[p + 1] \notin {"$", BQ}

\* t holds a single-dollar span that was not rewritten.
HoldsDollarSpan(t) ==
    \E p \in 1..Len(t), q \in 1..Len(t) :
        /\ p + 1 < q
        /\ PlainDollar(t, p)
        /\ PlainDollar(t, q)
        /\ \A k \in (p + 1)..(q - 1) : t[k] # "$"
        /\ \E k \in (p + 1)..(q - 1) : ~IsSpace(t[k])
        /\ \E k \in (p + 1)..(q - 1) : t[k] \notin AmountChars

\* Line k of ls stands inside a block formula: between a marker line that
\* opens (an odd one) and the marker line that closes it.
InsideBlockFormula(ls, k) ==
    LET before == {j \in 1..(k - 1) : Strip(ls[j]) = <<"$", "$">>}
        after == {j \in (k + 1)..Len(ls) : Strip(ls[j]) = <<"$", "$">>}
    IN Cardinality(before) % 2 = 1 /\ after # {}

C17_EveryDollarSpanRewritten ==
    converted # <<>> =>
        LET ls == SplitLines(converted[1])
        IN \A k \in 1..Len(ls) :
              ~InsideBlockFormula(ls, k) => ~HoldsDollarSpan(ls[k])

----------------------------------------------------------------------------
(* C18: in build_blocks a marker line whose closing marker line follows    *)
(* within the 50-line bound yields one equation unit holding the lines in  *)
(* between; otherwise (bound hit or end of input) it yields a paragraph    *)
(* unit holding the marker and every collected line. No line is dropped:   *)
(* each line the collection consumed is in the emitted unit and            *)
(* segmentation resumes at the first line not consumed.                    *)

\* The text of the spans of a unit, in order.
RECURSIVE SpanText(_)
SpanText(spans) ==
    IF spans = <<>> THEN <<>>
    ELSE (IF Head(spans).type = "equation" THEN Head(spans).expression
                                          ELSE Head(spans).content)
         \o SpanText(Tail(spans))

NoMarkup(t) == \A k \in 1..Len(t) : t[k] \notin SpanOpeners \cup {"]"}

\* What the math branch must do at the marker line line_i + 1: closing
\* markers count among the first 50 lines after it.
MathBranchKeepsLines ==
    LET opening == line_i + 1
        reach == Min(Len(lines), opening + MATH_LINES_LIMIT)
        closing == {j \in (opening + 1)..reach : Strip(lines[j]) = <<"$", "$">>}
        unit == built'[Len(built')]
    IN /\ Len(built') = Len(built) + 1
       /\ SubSeq(built', 1, Len(built)) = built
       /\ IF closing # {}
          THEN /\ unit.type = "equation"
               /\ unit.inner.expression =
                     Strip(Join(<<"\n">>, SubSeq(lines, opening + 1, Least(closing) - 1)))
               /\ line_i' = Least(closing)
          ELSE LET held == Join(<<" ">>, SubSeq(lines, opening + 1, reach))
               IN /\ unit.type = "paragraph"
                  /\ unit = RichBlock("paragraph", <<"$", "$">> \o held)
                  /\ NoMarkup(held) => SpanText(unit.inner.rich_text) = <<"$", "$">> \o held
                  /\ line_i' = reach

C18_MathBlockDropsNoLine ==
    [][At("math") => MathBranchKeepsLines]_vars

C18_Witness ==
    /\ Len(lines) > MATH_LINES_LIMIT + 1
    /\ Strip(lines[1]) = <<"$", "$">>
    /\ line_i = MATH_LINES_LIMIT + 1
    /\ Len(built) = 1
    /\ built[1].type = "paragraph"

----------------------------------------------------------------------------
(* C19: paragraph absorption stops at a following line exactly when that   *)
(* line is blank or would, read at top level, start a heading, list item,  *)
(* quote, code fence, divider or math block; hence two consecutive lines   *)
(* that are each paragraph text at top level are joined, by one space, in  *)
(* the same paragraph unit.                                                *)

\* What the paragraph branch must do at line line_i + 1: it absorbs up to
\* the first later line that is no paragraph text at top level.
ParagraphAbsorbsParagraphText ==
    LET first == line_i + 1
        stops == {j \in (first + 1)..Len(lines) :
                     LineKind(Strip(lines[j])) # "paragraph"}
        last == IF stops = {} THEN Len(lines) ELSE Least(stops) - 1
        unit == built'[Len(built')]
    IN /\ line_i' = last
       /\ Len(built') = Len(built) + 1
       /\ unit = RichBlock("paragraph",
                           Join(<<" ">>, [k \in 1..(last - first + 1) |->
                                            Strip(lines[first + k - 1])]))

C19_ParagraphStopsAtTopLevelStarts ==
    [][At("paragraph") => ParagraphAbsorbsParagraphText]_vars

----------------------------------------------------------------------------
(* C20: the title of process_file's result is the text of the first        *)
(* heading_1 unit that build_blocks produces for the document, and it is   *)
(* the file stem exactly when build_blocks produces no heading_1 unit.     *)

FirstHeadings == {k \in 1..Len(final_blocks) :
                     final_blocks[k].type = "heading_1"}

\* The spans are plain text: what they hold is the heading as written.
PlainSpans(spans) ==
    \A k \in 1..Len(spans) :
        spans[k].type = "text" /\ spans[k].annotations = "none"

C20_TitleIsFirstHeading1 ==
    result # None =>
        IF FirstHeadings = {} THEN result.title = Stem
        ELSE LET spans == final_blocks[Least(FirstHeadings)].inner.rich_text
             IN /\ result.title # Stem
                /\ PlainSpans(spans) => result.title = SpanText(spans)

----------------------------------------------------------------------------
(* C21: through convert and build_blocks the text of a code unit is the    *)
(* input lines between its opening and its closing fence, unchanged: for a *)
(* file that opens with a fence that is closed later, the first unit is a  *)
(* code unit holding exactly the lines in between, joined by newlines.     *)

C21_CodeTextIsInputLines ==
    result # None =>
        LET input == SplitLines(cv_in)
            closing == {j \in 2..Len(input) : StartsWith(Strip(input[j]), Fence)}
        IN (StartsWith(Strip(input[1]), Fence) /\ closing # {}) =>
              /\ final_blocks # <<>>
              /\ final_blocks[1].type = "code"
              /\ final_blocks[1].inner.rich_text[1].content =
                     Join(<<"\n">>, SubSeq(input, 2, Least(closing) - 1))

----------------------------------------------------------------------------
(* C22: a rejected request storing nothing, no unit of a document is in    *)
(* more than one accepted request, whatever the answers were (rejected     *)
(* creation and fallback, rejected batches and singleton retries): each    *)
(* unit was accepted at most once. A singleton retry is sent only for a    *)
(* unit of a batch whose batch request was rejected.                       *)

\* The children of the accepted requests at places lo..hi, concatenated.
RECURSIVE AcceptedIn(_, _)
AcceptedIn(lo, hi) ==
    IF lo > hi THEN <<>>
    ELSE IF lo = hi
         THEN (IF net[lo].ans = "ok" THEN net[lo].children ELSE <<>>)
         ELSE LET mid == (lo + hi) \div 2
              IN AcceptedIn(lo, mid) \o AcceptedIn(mid + 1, hi)

Accepted == AcceptedIn(1, Len(net))

C22_NoUnitAcceptedTwice ==
    /\ Cardinality(Range(Accepted)) = Len(Accepted)
    /\ LET as == Places("append")
       IN /\ \A q \in Places("single") : \E p \in as : p < q
          /\ \A p \in as :
               LET later == {r \in as : r > p}
                   stop == IF later = {} THEN Len(net) ELSE Least(later) - 1
                   units == Range(net[p].children)
               IN \A q \in (p + 1)..stop :
                    net[q].op = "single" =>
                        /\ net[p].ans = "reject"
                        /\ Range(net[q].children) \subseteq units

\* A document of three batches delivered to its end: the creation with the
\* first batch rejected, the empty page accepted, the first batch rejected
\* and then accepted unit by unit, the other batches accepted.
C22_Witness ==
    /\ DocDone /\ Created
    /\ Len(blocks) > 2 * PAGE_BATCH
    /\ net[1].ans = "reject"
    /\ net[3].op = "append" /\ net[3].ans = "reject"
    /\ \A q \in Places("single") : net[q].ans = "ok"
    /\ \E q \in Places("append") : q > 3 /\ net[q].ans = "ok"
    /\ Range(Accepted) = Range(blocks)

----------------------------------------------------------------------------
(* C23: _chunk_text splits a content of L > 0 characters into exactly      *)
(* ceil(L / 2000) text spans, in order, each of at most 2000 characters    *)
(* and all but the last of exactly 2000, whose contents concatenated are   *)
(* the content and which all carry the annotation passed in; 5000          *)
(* characters give 2000/2000/1000; an empty content gives no span.         *)

\* The contents of the spans, concatenated in order.
RECURSIVE ChunksConcat(_)
ChunksConcat(chunks) ==
    IF chunks = <<>> THEN <<>>
    ELSE Head(chunks).content \o ChunksConcat(Tail(chunks))

C23_ChunkTextSplitsAt2000 ==
    ck_pc = "returned" =>
        LET L == Len(ck_content)
            n == Len(ck_chunks)
        IN /\ n = (L + 1999) \div 2000
           /\ ChunksConcat(ck_chunks) = ck_content
           /\ \A k \in 1..n :
                /\ ck_chunks[k].type = "text"
                /\ ck_chunks[k].annotations = ck_annotations
                /\ Len(ck_chunks[k].content) <= 2000
                /\ k < n => Len(ck_chunks[k].content) = 2000
           /\ L = 5000 => [k \in 1..n |-> Len(ck_chunks[k].content)]
                              = <<2000, 2000, 1000>>

\* 5000 bold characters were split into three spans.
C23_Witness ==
    /\ ck_pc = "returned"
    /\ Len(ck_content) = 5000
    /\ ck_annotations = "bold"
    /\ Len(ck_chunks) = 3
    /\ Len(ck_chunks[3].content) = 1000

----------------------------------------------------------------------------
(* C24: build_blocks terminates on every text: every pass of its outer     *)
(* loop, whatever the branch, moves the line cursor on by at least one     *)
(* line and no further than one past the end of the input, a pass at a     *)
(* blank line emits no unit and a pass at any other line exactly one, and  *)
(* build_blocks returns in the end.                                        *)

PassAdvances ==
    /\ line_i' > line_i
    /\ line_i' <= Len(lines) + 1
    /\ Len(built') = Len(built) + (IF Stripped = <<>> THEN 0 ELSE 1)
    /\ SubSeq(built', 1, Len(built)) = built

C24_BuildBlocksTerminates ==
    /\ [][Scanning => PassAdvances]_vars
    /\ <>Returned

\* build_blocks has returned for a text of two lines, an opening fence that
\* is never closed and a line after it: the cursor ended one past the end
\* of the input and one unit was emitted.
C24_Witness ==
    /\ Returned
    /\ Len(lines) = 2
    /\ StartsWith(Strip(lines[1]), Fence)
    /\ line_i = Len(lines) + 1
    /\ Len(built) = 1
    /\ Len(final_blocks) = 1

=============================================================================
